---- MODULE Spec2Model ----
(***************************************************************************)
(* Model of python_perf_env/core.py: the SimpleEvaluator and               *)
(* TestDrivenEvaluator gymnasium environments, together with the           *)
(* process-wide tracemalloc tracer they start and stop.                    *)
(*                                                                         *)
(* Numbers.  Rewards are rationals <<numerator, denominator>> with a       *)
(* positive denominator.  Time is counted in the unit of the last digit    *)
(* that pstats prints, memory in bytes; config["max_memory_cost"] is given *)
(* in half bytes so that the int() of the constructor has something to     *)
(* truncate.  Submitted programs raise subclasses of Exception.            *)
(***************************************************************************)
EXTENDS Integers, Sequences, FiniteSets, TLC

MaxAlloc == 3   \* largest peak allocation of one invocation
MaxTime  == 3   \* largest total time of one profiled invocation

DefaultEntryLen == 8   \* len(DEFAULT_CONFIG["entry_point"]) = len("env_main")

Max(a, b) == IF a >= b THEN a ELSE b
Min(a, b) == IF a <= b THEN a ELSE b

----------------------------------------------------------------------------
(* Rational arithmetic for the float expressions of step().                *)
RLe(a, b) == a[1] * b[2] <= b[1] * a[2]
RLt(a, b) == a[1] * b[2] <  b[1] * a[2]
REq(a, b) == a[1] * b[2] =  b[1] * a[2]
RMin(a, b) == IF RLe(a, b) THEN a ELSE b
RAdd(a, b) == <<a[1] * b[2] + b[1] * a[2], a[2] * b[2]>>
RScale(k, a) == <<k * a[1], a[2]>>
RNeg(a) == <<-a[1], a[2]>>
RInt(n) == <<n, 1>>

----------------------------------------------------------------------------
(* Constructor arguments: a config dict is a function from the keys it     *)
(* holds to their values.                                                   *)
NoKeys == [k \in {} |-> 0]
OptKey(k, vals) == {NoKeys} \cup {k :> v : v \in vals}

InputLens   == {16, 17}
TimeCosts   == {0, 2}
MemoryCostsInHalves == {0, 1, 4}
EntryLens   == {0}
TimeWeights   == {0, 2}
MemoryWeights == {1}
ExceptionRewards == {-3, -1, 0}
UnittestLens == {0, 20, 21}

RequiredCfgs ==
    [max_input_len : InputLens, max_time_cost : TimeCosts,
     max_memory_cost : MemoryCostsInHalves, exception_reward : ExceptionRewards]

SimpleConfigs ==
    {r @@ e @@ t @@ m : r \in RequiredCfgs, e \in OptKey("entry_point", EntryLens),
                        t \in OptKey("time_weight", TimeWeights),
                        m \in OptKey("memory_weight", MemoryWeights)}

TestDrivenConfigs ==
    {c @@ u : c \in SimpleConfigs, u \in OptKey("unittest", UnittestLens)}

Has(cfg, k) == k \in DOMAIN cfg

----------------------------------------------------------------------------
(* Submitted programs, by what the harness can observe of them.            *)
Code(m, d, c1, a, c2, t, r, v) ==
    [mentions |-> m, define |-> d, call1 |-> c1, alloc |-> a,
     call2 |-> c2, time |-> t, recursive |-> r, ret |-> v]

NoCode == Code(FALSE, "ok", "raise", 0, "raise", 0, FALSE, 0)

Codes ==
    {NoCode}
    \cup {Code(TRUE, "raise", "raise", 0, "raise", 0, FALSE, 0)}
    \cup {Code(TRUE, "ok", "raise", a, "raise", 0, FALSE, 0) : a \in 0..MaxAlloc}
    \cup {Code(TRUE, "ok", "ok", a, "raise", 0, FALSE, 0) : a \in 0..MaxAlloc}
    \cup {Code(TRUE, "ok", "ok", a, "ok", t, r, 0) :
              a \in 0..MaxAlloc, t \in 0..MaxTime, r \in BOOLEAN}

UnittestOutcomes == {"pass", "fail", "raise"}

----------------------------------------------------------------------------
VARIABLES
    cls,              \* class of the evaluator object, "none" before it exists
    config,           \* the dict handed to the constructor
    entry_point,      \* len(self.entry_point)
    max_time_cost, max_memory_cost, time_weight, memory_weight,
    exception_reward, \* self.exception_reward, already scaled
    reward,           \* self.reward
    unittest_code,    \* len(self.unittest_code)
    test_execenv,     \* names bound in self.test_execenv
    tracer,           \* the tracemalloc module: [tracing, peak]
    action,           \* argument of the last step()
    events,           \* statements the last SimpleEvaluator.step() ran
    base_result,      \* what the last SimpleEvaluator.step() returned
    result            \* what the last call returned to the caller

vars == <<cls, config, entry_point, max_time_cost, max_memory_cost, time_weight,
          memory_weight, exception_reward, reward, unittest_code, test_execenv,
          tracer, action, events, base_result, result>>

fields == <<cls, config, entry_point, max_time_cost, max_memory_cost, time_weight,
            memory_weight, exception_reward, unittest_code>>

Returned(kind, obs, rew, info) ==
    [kind |-> kind, observation |-> obs, reward |-> rew,
     terminated |-> FALSE, truncated |-> FALSE, info |-> info]

NoResult == Returned("none", <<>>, RInt(0), {})

TracerOff == [tracing |-> FALSE, peak |-> 0]

Init ==
    /\ cls = "none"
    /\ config = NoKeys
    /\ entry_point = 0
    /\ max_time_cost = 0
    /\ max_memory_cost = 0
    /\ time_weight = 0
    /\ memory_weight = 0
    /\ exception_reward = 0
    /\ reward = RInt(0)
    /\ unittest_code = 0
    /\ test_execenv = {}
    /\ tracer = TracerOff
    /\ action = NoCode
    /\ events = <<>>
    /\ base_result = NoResult
    /\ result = NoResult

----------------------------------------------------------------------------
(* SimpleEvaluator.__init__                                                *)
EntryPointOf(cfg) ==
    IF Has(cfg, "entry_point") THEN cfg["entry_point"] ELSE DefaultEntryLen

\* int(config["max_memory_cost"]) of a non-negative value given in halves
IntOfHalves(h) == h \div 2

BothWeights(cfg) == Has(cfg, "time_weight") /\ Has(cfg, "memory_weight")
TimeWeightOf(cfg)   == IF BothWeights(cfg) THEN cfg["time_weight"] ELSE 1
MemoryWeightOf(cfg) == IF BothWeights(cfg) THEN cfg["memory_weight"] ELSE 1

ScaledExceptionRewardMin(cfg) ==
    cfg["exception_reward"] * Min(TimeWeightOf(cfg), MemoryWeightOf(cfg))
ScaledExceptionReward(cfg) ==
    cfg["exception_reward"] * Max(TimeWeightOf(cfg), MemoryWeightOf(cfg))

SimpleAssertsNoTimeCheck(cfg) ==
    /\ ScaledExceptionReward(cfg) < 0
    /\ Min(TimeWeightOf(cfg), MemoryWeightOf(cfg)) > 0
    /\ IntOfHalves(cfg["max_memory_cost"]) > 0
    /\ EntryPointOf(cfg) > 0
    /\ cfg["max_input_len"] > 8 + EntryPointOf(cfg)
SimpleAsserts(cfg) ==
    /\ ScaledExceptionReward(cfg) < 0
    /\ Min(TimeWeightOf(cfg), MemoryWeightOf(cfg)) > 0
    /\ IntOfHalves(cfg["max_memory_cost"]) > 0
    /\ cfg["max_time_cost"] > 0
    /\ EntryPointOf(cfg) > 0
    /\ cfg["max_input_len"] > 8 + EntryPointOf(cfg)

\* TestDrivenEvaluator.__init__ after super().__init__
UnittestAsserts(cfg) ==
    /\ Has(cfg, "unittest")
    /\ cfg["unittest"] # 0
    /\ cfg["unittest"] > 20

ConstructFailed(cfg) ==
    /\ config' = cfg
    /\ result' = Returned("init_raised", <<>>, RInt(0), {})
    /\ UNCHANGED <<cls, entry_point, max_time_cost, max_memory_cost, time_weight,
                   memory_weight, exception_reward, reward, unittest_code,
                   test_execenv, tracer, action, events, base_result>>

Constructed(c, cfg) ==
    /\ cls' = c
    /\ config' = cfg
    /\ entry_point' = EntryPointOf(cfg)
    /\ max_time_cost' = cfg["max_time_cost"]
    /\ max_memory_cost' = IntOfHalves(cfg["max_memory_cost"])
    /\ time_weight' = TimeWeightOf(cfg)
    /\ memory_weight' = MemoryWeightOf(cfg)
    /\ exception_reward' = ScaledExceptionReward(cfg)
    /\ reward' = RInt(0)
    /\ unittest_code' = IF c = "TestDrivenEvaluator" THEN cfg["unittest"] ELSE 0
    /\ test_execenv' = {}
    /\ result' = Returned("constructed", <<>>, RInt(0), {})
    /\ UNCHANGED <<tracer, action, events, base_result>>

ConstructSimple(cfg) ==
    /\ result.kind = "none"
    /\ IF SimpleAsserts(cfg)
       THEN Constructed("SimpleEvaluator", cfg)
       ELSE ConstructFailed(cfg)

ConstructTestDriven(cfg) ==
    /\ result.kind = "none"
    /\ IF SimpleAsserts(cfg) /\ UnittestAsserts(cfg)
       THEN Constructed("TestDrivenEvaluator", cfg)
       ELSE ConstructFailed(cfg)

----------------------------------------------------------------------------
(* reset() of both classes                                                 *)
ResetReturn == Returned("reset", <<>>, RInt(0), {<<"env_state", "reset">>})

Reset ==
    /\ cls # "none"
    /\ reward' = RInt(0)
    /\ test_execenv' = IF cls = "TestDrivenEvaluator" THEN {} ELSE test_execenv
    /\ result' = ResetReturn
    /\ UNCHANGED <<fields, tracer, action, events, base_result>>

----------------------------------------------------------------------------
(* The tracemalloc module: start() does nothing while tracing, the peak   *)
(* is the high-water mark since the tracer was started.                    *)
TracemallocStart(tm) == IF tm.tracing THEN tm ELSE [tracing |-> TRUE, peak |-> 0]
TracemallocStop(tm)  == TracerOff
TracemallocAlloc(tm, n) ==
    IF tm.tracing THEN [tm EXCEPT !.peak = Max(@, n)] ELSE tm
TracemallocPeak(tm) == IF tm.tracing THEN tm.peak ELSE 0

----------------------------------------------------------------------------
(* Text is a sequence of tokens; a token is a word or a number.            *)
Word(w) == [w |-> w, n |-> 0]
Num(n)  == [w |-> "#", n |-> n]

\* pstats.Stats.print_stats: the header line of the report
TotalCalls(code) == IF code.recursive THEN 7 ELSE 4
PrimCalls(code)  == 4

PrintStats(profile) ==
    <<Num(profile.total_calls), Word("function calls")>>
    \o (IF profile.total_calls # profile.prim_calls
        THEN <<Word("("), Num(profile.prim_calls), Word("primitive calls)")>>
        ELSE <<>>)
    \o <<Word("in"), Num(profile.total_tt), Word("seconds")>>

\* text.split('function calls in ')[1].split(' ')[0], <<>> on IndexError
AfterFunctionCallsIn(text) ==
    LET hits == {i \in 1..(Len(text) - 1) :
                    text[i] = Word("function calls") /\ text[i + 1] = Word("in")}
    IN  IF hits = {} THEN <<>>
        ELSE LET i == CHOOSE j \in hits : \A k \in hits : j <= k
             IN  SubSeq(text, i + 2, Len(text))

\* lines 197-201: float(...) of the token, max_time_cost if that raises
TimeReward(time_usage) ==
    LET rest == AfterFunctionCallsIn(time_usage)
    IN  IF rest # <<>> /\ rest[1].w = "#" THEN rest[1].n ELSE max_time_cost

----------------------------------------------------------------------------
(* The try block of SimpleEvaluator.step, statement by statement.          *)
TryBodyStopLate ==
    <<"exec", "tracemalloc.start", "eval", "get_traced_memory",
      "cProfile.runctx", "tracemalloc.stop", "print_stats">>
TryBody ==
    <<"exec", "tracemalloc.start", "eval", "get_traced_memory",
      "tracemalloc.stop", "cProfile.runctx", "print_stats">>

NoProfile == [total_calls |-> 0, prim_calls |-> 0, total_tt |-> 0]

Frame(tm) ==
    [tm |-> tm, raised |-> "", executed_result |-> 0, memory_reward |-> 0,
     profile |-> NoProfile, time_usage |-> <<>>, events |-> <<>>]

ExecStmt(s, fr, code) ==
    LET f == [fr EXCEPT !.events = Append(@, [op |-> s, tracing |-> fr.tm.tracing])]
    IN  CASE s = "exec" ->
               IF code.define = "raise" THEN [f EXCEPT !.raised = s] ELSE f
          [] s = "tracemalloc.start" ->
               [f EXCEPT !.tm = TracemallocStart(@)]
          [] s = "eval" ->
               IF code.call1 = "raise"
               THEN [f EXCEPT !.tm = TracemallocAlloc(@, code.alloc), !.raised = s]
               ELSE [f EXCEPT !.tm = TracemallocAlloc(@, code.alloc),
                              !.executed_result = code.ret]
          [] s = "get_traced_memory" ->
               [f EXCEPT !.memory_reward = TracemallocPeak(f.tm)]
          [] s = "tracemalloc.stop" ->
               [f EXCEPT !.tm = TracemallocStop(@)]
          [] s = "cProfile.runctx" ->
               IF code.call2 = "raise"
               THEN [f EXCEPT !.tm = TracemallocAlloc(@, code.alloc), !.raised = s]
               ELSE [f EXCEPT !.tm = TracemallocAlloc(@, code.alloc),
                              !.profile = [total_calls |-> TotalCalls(code),
                                           prim_calls |-> PrimCalls(code),
                                           total_tt |-> code.time]]
          [] s = "print_stats" ->
               [f EXCEPT !.time_usage = PrintStats(f.profile)]

\* a raised exception leaves the block: the statements after it do not run
RECURSIVE Run(_, _, _)
Run(stmts, fr, code) ==
    IF stmts = <<>> \/ fr.raised # "" THEN fr
    ELSE Run(Tail(stmts), ExecStmt(Head(stmts), fr, code), code)

----------------------------------------------------------------------------
(* Observations are sequences of sections [h, body].                       *)
Section(h, body) == [h |-> h, body |-> body]

\* lines 185-194
ExceptBranch(fr) ==
    Returned("step", <<Section("Traceback", <<Word(fr.raised)>>)>>,
             RInt(exception_reward), {})

\* lines 206-207
NormalizeUncapped(cost, ceiling) == <<cost, ceiling>>
Normalize(cost, ceiling) == RMin(<<cost, ceiling>>, RInt(1))

\* lines 195-223
Shape(fr) ==
    LET time_reward == TimeReward(fr.time_usage)
        observation ==
            <<Section("# Output", <<Num(fr.executed_result)>>),
              Section("# Space complexity", <<Num(fr.memory_reward)>>),
              Section("# Time complexity", fr.time_usage)>>
        total_cost ==
            RAdd(RScale(time_weight, Normalize(time_reward, max_time_cost)),
                 RScale(memory_weight, Normalize(fr.memory_reward, max_memory_cost)))
    IN  Returned("step", observation, RNeg(total_cost), {})

\* SimpleEvaluator.step past the assertion of line 171
SimpleStepFrame(code) == Run(TryBody, Frame(tracer), code)
SimpleStepReturn(fr) == IF fr.raised # "" THEN ExceptBranch(fr) ELSE Shape(fr)

StepRaised == Returned("step_raised", <<>>, RInt(0), {})

StepSimple(code) ==
    /\ cls = "SimpleEvaluator"
    /\ action' = code
    /\ IF ~code.mentions
       THEN /\ result' = StepRaised
            /\ base_result' = StepRaised
            /\ events' = <<>>
            /\ UNCHANGED tracer
       ELSE LET fr == SimpleStepFrame(code)
            IN  /\ result' = SimpleStepReturn(fr)
                /\ base_result' = SimpleStepReturn(fr)
                /\ events' = fr.events
                /\ tracer' = fr.tm
    /\ UNCHANGED <<fields, reward, test_execenv>>

----------------------------------------------------------------------------
(* TestDrivenEvaluator.step                                                *)
\* lines 241-252: the text that ends up in unittest_output
UnittestOutput(code, ut) ==
    IF code.define = "raise"
    THEN <<Word("Unit test execution failed:"), Word("exec")>>
    ELSE IF ut = "raise"
         THEN <<Word("Unit test execution failed:"), Word("unittest.main")>>
         ELSE <<Word("failures="), Num(IF ut = "fail" THEN 1 ELSE 0)>>

\* lines 242-248: the names the auxiliary run leaves in self.test_execenv
TestExecenvAfter(env, code) ==
    IF code.define = "raise" THEN env ELSE env \cup {"entry_point", "unittest"}

\* observation.split("# Space complexity"), obs[0] replaced, joined again
Splice(observation, unittest_output) ==
    LET at == {i \in 1..Len(observation) : observation[i].h = "# Space complexity"}
        head == <<Section("# Unit Test Output", unittest_output)>>
    IN  IF at = {} THEN head
        ELSE LET i == CHOOSE j \in at : \A k \in at : j <= k
             IN  head \o SubSeq(observation, i, Len(observation))

\* lines 253-262
TestDrivenReturnPenalised(base, unittest_output) ==
    Returned("step", Splice(base.observation, unittest_output),
             IF unittest_output = <<Word("failures="), Num(0)>>
             THEN base.reward ELSE RInt(exception_reward),
             base.info)
TestDrivenReturn(base, unittest_output) ==
    [base EXCEPT !.observation = Splice(base.observation, unittest_output)]

StepTestDriven(code, ut) ==
    /\ cls = "TestDrivenEvaluator"
    /\ action' = code
    /\ IF ~code.mentions
       THEN /\ result' = StepRaised
            /\ base_result' = StepRaised
            /\ events' = <<>>
            /\ UNCHANGED <<tracer, test_execenv>>
       ELSE LET fr == SimpleStepFrame(code)
            IN  /\ base_result' = SimpleStepReturn(fr)
                /\ events' = fr.events
                /\ tracer' = fr.tm
                /\ test_execenv' = TestExecenvAfter(test_execenv, code)
                /\ result' = TestDrivenReturn(SimpleStepReturn(fr),
                                              UnittestOutput(code, ut))
    /\ UNCHANGED <<fields, reward>>

----------------------------------------------------------------------------
Next ==
    \/ \E cfg \in SimpleConfigs : ConstructSimple(cfg)
    \/ \E cfg \in TestDrivenConfigs : ConstructTestDriven(cfg)
    \/ Reset
    \/ \E code \in Codes : StepSimple(code)
    \/ \E code \in Codes, ut \in UnittestOutcomes : StepTestDriven(code, ut)

Spec == Init /\ [][Next]_vars

----------------------------------------------------------------------------
(* Vocabulary of the properties.                                           *)
Raises(code) ==
    code.define = "raise" \/ code.call1 = "raise" \/ code.call2 = "raise"

BaseStepped  == base_result.kind = "step"
BaseFailed   == BaseStepped /\ Raises(action)
BaseSucceeded == BaseStepped /\ ~Raises(action)

Sections(obs) == {obs[i].h : i \in 1..Len(obs)}

HasTrace(obs) ==
    \E i \in 1..Len(obs) :
        \/ obs[i].h = "Traceback"
        \/ /\ obs[i].h = "# Unit Test Output"
           /\ obs[i].body[1] = Word("Unit test execution failed:")

\* the peak-memory figure printed in a successful base observation
ReportedPeak == base_result.observation[2].body[1].n

WorstSuccess == RInt(-(time_weight + memory_weight))

----------------------------------------------------------------------------
\* C1 (as stated): every reward returned by step() lies in
\* [exception_penalty, 0], so no successful run scores below the failure reward.
C1_Original ==
    result.kind = "step" =>
        /\ RLe(RInt(exception_reward), result.reward)
        /\ RLe(result.reward, RInt(0))

\* C1 (amended): every reward returned by step() lies in
\* [min(exception_penalty, -(time_weight + memory_weight)), 0]; a successful
\* run is never below -(time_weight + memory_weight) and a failing one returns
\* exception_penalty, which is negative but need not be the lower of the two.
C1_RewardRange ==
    result.kind = "step" =>
        /\ RLe(result.reward, RInt(0))
        /\ RLe(RMin(RInt(exception_reward), WorstSuccess), result.reward)
        /\ BaseSucceeded => RLe(WorstSuccess, result.reward)
        /\ BaseFailed => result.reward = RInt(exception_reward)

\* a successful step whose reward is below the failure reward
C1_Witness ==
    /\ result.kind = "step"
    /\ BaseSucceeded
    /\ RLt(result.reward, RInt(exception_reward))
    /\ REq(result.reward, WorstSuccess)

----------------------------------------------------------------------------
\* C2: when the definition or either invocation raises inside
\* SimpleEvaluator.step, the reward it returns is exactly
\* config.exception_reward * max(time_weight, memory_weight), whatever was
\* measured before the failure, and the observation is the error trace alone.
C2_ExceptionReward ==
    BaseFailed =>
        /\ base_result.reward =
               RInt(config["exception_reward"] * Max(time_weight, memory_weight))
        /\ Len(base_result.observation) = 1
        /\ base_result.observation[1].h = "Traceback"
        /\ cls = "SimpleEvaluator" /\ result.kind = "step" => result = base_result

\* the second invocation raised after a non-zero peak had been measured,
\* on an evaluator whose two weights differ
C2_Witness ==
    /\ BaseFailed
    /\ action.call1 = "ok"
    /\ action.alloc > 0
    /\ time_weight # memory_weight
    /\ \E i \in 1..Len(events) : events[i].op = "get_traced_memory"

----------------------------------------------------------------------------
\* C3 (as stated): step() of either class never raises to the caller, and for
\* every failing submission it returns the error trace in the observation with
\* the fixed exception reward, terminated = truncated = false and info = {}.
C3_Original ==
    /\ result.kind # "step_raised"
    /\ (result.kind = "step" /\ Raises(action)) =>
           /\ HasTrace(result.observation)
           /\ result.reward = RInt(exception_reward)
           /\ ~result.terminated
           /\ ~result.truncated
           /\ result.info = {}

----------------------------------------------------------------------------
ExactlyOneWeight(cfg) == Has(cfg, "time_weight") # Has(cfg, "memory_weight")

RejectedInput(cfg) ==
    LET ep == IF Has(cfg, "entry_point") THEN cfg["entry_point"] ELSE DefaultEntryLen
    IN  \/ cfg["max_input_len"] <= ep + 8
        \/ ep = 0
        \/ cfg["max_time_cost"] <= 0
        \/ cfg["max_memory_cost"] <= 0

EvaluatorInvariants ==
    /\ exception_reward < 0
    /\ time_weight > 0
    /\ memory_weight > 0
    /\ max_time_cost > 0
    /\ max_memory_cost > 0
    /\ entry_point > 0

----------------------------------------------------------------------------
\* C5 (as stated): on every successful step the reward is
\* -(time_weight * min(aggregate_time / max_time_cost, 1)
\*   + memory_weight * min(peak_memory / max_memory_cost, 1)),
\* aggregate_time being the total time the profiler measured.
C5_Original ==
    BaseSucceeded =>
        REq(base_result.reward,
            RNeg(RAdd(RScale(time_weight,
                             RMin(<<action.time, max_time_cost>>, RInt(1))),
                      RScale(memory_weight,
                             RMin(<<ReportedPeak, max_memory_cost>>, RInt(1))))))

----------------------------------------------------------------------------
----------------------------------------------------------------------------
\* C7 (as stated): whenever no step() is running the allocation tracer is
\* not active, also after a step whose memory-profiled invocation raised.
C7_Original == ~tracer.tracing

----------------------------------------------------------------------------
\* C8 (as stated): self.reward is 0 after construction and after reset(), and
\* after a step() it is the reward that step returned; reset() returns
\* ("", {"env_state": "reset"}).
C8_Original ==
    /\ result.kind \in {"constructed", "reset"} => reward = RInt(0)
    /\ result.kind = "step" => REq(reward, result.reward)
    /\ result.kind = "reset" =>
          result.observation = <<>> /\ result.info = {<<"env_state", "reset">>}

----------------------------------------------------------------------------
Invocations == {i \in 1..Len(events) : events[i].op \in {"eval", "cProfile.runctx"}}
At(op) == {i \in 1..Len(events) : events[i].op = op}

\* C9: within one SimpleEvaluator.step the stages run in the order define,
\* invoke#1, invoke#2, shape.  A successful step invokes the entry point
\* exactly twice, the first time under the tracer and the second time after
\* the tracer was stopped; a failing definition leaves no invocation, a
\* failing first invocation no second one, and a failing step returns no
\* measurement.
C9_StageOrder ==
    BaseStepped =>
        /\ \A i \in At("exec") : \A j \in Invocations : i < j
        /\ \A i \in At("eval") : \A j \in At("cProfile.runctx") : i < j
        /\ Cardinality(At("exec")) = 1
        /\ BaseSucceeded =>
              /\ Cardinality(At("eval")) = 1
              /\ Cardinality(At("cProfile.runctx")) = 1
              /\ \A i \in At("eval") : events[i].tracing
              /\ \A j \in At("cProfile.runctx") :
                    /\ ~events[j].tracing
                    /\ \E k \in At("tracemalloc.stop") : k < j
              /\ Sections(base_result.observation) =
                     {"# Output", "# Space complexity", "# Time complexity"}
        /\ action.define = "raise" => Invocations = {}
        /\ (action.define = "ok" /\ action.call1 = "raise") =>
              Cardinality(Invocations) = 1 /\ At("cProfile.runctx") = {}
        /\ BaseFailed =>
              /\ Sections(base_result.observation) = {"Traceback"}
              /\ base_result.reward = RInt(exception_reward)

\* a successful step that followed a step which left the tracer running
C9_Witness ==
    /\ BaseSucceeded
    /\ Len(events) = 7
    /\ events[1].tracing
    /\ ~events[6].tracing

----------------------------------------------------------------------------
\* C10 (as stated): what a step returns is what the same submission returns
\* on an evaluator of the same configuration in a fresh process, whatever
\* calls came before.
C10_Original ==
    BaseStepped =>
        base_result = SimpleStepReturn(Run(TryBody, Frame(TracerOff), action))

====
